---- MODULE Spec2Model ----
(***************************************************************************)
(* Model of nobma2/mark_sample: the sheet-side inspector                   *)
(* (excel_image_infer.py) and the inference service (main.py).             *)
(*                                                                         *)
(* Python strings are sequences of pieces (characters or atomic chunks),   *)
(* so concatenation is \o and the empty string is <<>>; the Japanese       *)
(* phrases are written in English.  Confidences are                        *)
(* integers in hundredths (0.75 is 75).  Python values whose type the code *)
(* does not control are tagged records [t |-> type, v |-> value].          *)
(***************************************************************************)
EXTENDS Integers, Sequences, FiniteSets, TLC

VARIABLES
    \* ---- layout: snap_comment_start_row / write_comment_block ----
    img_top_row,     \* anchor row of the photograph being placed
    comment_start,   \* start row returned by snap_comment_start_row
    blocks,          \* comment blocks merged on the sheet so far
    lpc,             \* "row" | "snapped" | "written"
    \* ---- note composition: build_note ----
    n_label, n_conf, n_reason,
    n_note,          \* the composed note, <<>> before composition
    \* ---- response parsing: parse_response ----
    j,               \* the payload handed to parse_response
    verdict,         \* its outcome
    \* ---- /infer handler ----
    req,             \* the request being served
    resp,            \* the response sent
    \* ---- one pass of _inspect_core ----
    shapes,          \* list(sht.shapes)
    idx,             \* position of the loop in shapes
    pc,              \* position of the pass inside the loop body
    tmp_files,       \* temporary files on disk: shape index -> size
    containers,      \* chart containers present on the sheet
    written,         \* write_comment_block calls made by the pass
    msgbox,          \* the message box shown at the end
    ex,              \* local state of the running export_shape_to_png
    note             \* the note computed for the current photograph

layout_vars == <<img_top_row, comment_start, blocks, lpc>>
note_vars   == <<n_label, n_conf, n_reason, n_note>>
parse_vars  == <<j, verdict>>
infer_vars  == <<req, resp>>
pass_vars   == <<shapes, idx, pc, tmp_files, containers, written, msgbox, ex, note>>
vars == <<layout_vars, note_vars, parse_vars, infer_vars, pass_vars>>

not_layout == <<note_vars, parse_vars, infer_vars, pass_vars>>
not_note   == <<layout_vars, parse_vars, infer_vars, pass_vars>>
not_parse  == <<layout_vars, note_vars, infer_vars, pass_vars>>
not_infer  == <<layout_vars, note_vars, parse_vars, pass_vars>>
not_pass   == <<layout_vars, note_vars, parse_vars, infer_vars>>

(***************************************************************************)
(* Bounds of the model.                                                    *)
(***************************************************************************)
MaxRow      == 110   \* largest anchor row tried
MaxBelow    == 30    \* anchor rows down to -MaxBelow are tried
MaxConf     == 120   \* confidences up to 1.20 are tried
MaxConfNeg  == 10    \* and down to -0.10
MaxParts    == 4     \* parts in a candidate's content
MaxShapes   == 2     \* shapes on the sheet

Rows  == (0 - MaxBelow)..MaxRow
Confs == (0 - MaxConfNeg)..MaxConf

(***************************************************************************)
(* excel_image_infer.py: layout constants and the row mapping.             *)
(***************************************************************************)
DATA_START_ROW == 5
BLOCK_PITCH    == 21
IMAGE_ROWS     == 14
COMMENT_ROWS   == 4

\* snap_comment_start_row without the below-start branch
snap_no_floor(r) ==
    DATA_START_ROW + IMAGE_ROWS + ((r - DATA_START_ROW) \div BLOCK_PITCH) * BLOCK_PITCH

\* snap_comment_start_row returning the photograph's first row
snap_no_image_rows(r) ==
    LET i == IF r < DATA_START_ROW THEN 0
             ELSE (r - DATA_START_ROW) \div BLOCK_PITCH
    IN  DATA_START_ROW + i * BLOCK_PITCH

snap_comment_start_row(r) ==
    LET i == IF r < DATA_START_ROW THEN 0
             ELSE (r - DATA_START_ROW) \div BLOCK_PITCH
    IN  DATA_START_ROW + IMAGE_ROWS + i * BLOCK_PITCH

\* the rows of the range H{start}:K{start + COMMENT_ROWS - 1}
comment_range(start) == start..(start + COMMENT_ROWS - 1)

\* The layout convention of the sheet: photograph k occupies IMAGE_ROWS rows
\* from DATA_START_ROW + k * BLOCK_PITCH (5-18, 26-39, ...).
photo_rows(k) ==
    (DATA_START_ROW + k * BLOCK_PITCH)..(DATA_START_ROW + k * BLOCK_PITCH + IMAGE_ROWS - 1)

\* The slot an anchor row belongs to: rows below the first photograph are
\* slot 0, otherwise the slot whose pitch interval holds the row.
Slots == 0..((MaxRow \div BLOCK_PITCH) + 1)
slot_of(r) ==
    IF r < DATA_START_ROW THEN 0
    ELSE CHOOSE k \in Slots :
            /\ DATA_START_ROW + k * BLOCK_PITCH <= r
            /\ r < DATA_START_ROW + (k + 1) * BLOCK_PITCH

LayoutInit ==
    /\ img_top_row \in Rows
    /\ comment_start = 0
    /\ blocks = {}
    /\ lpc = "row"

\* comment_start = snap_comment_start_row(top_row)
Snap ==
    /\ lpc = "row"
    /\ comment_start' = snap_comment_start_row(img_top_row)
    /\ lpc' = "snapped"
    /\ UNCHANGED <<img_top_row, blocks, not_layout>>

\* write_comment_block(sht, comment_start, note): the range is unmerged,
\* merged and filled
WriteComment ==
    /\ lpc = "snapped"
    /\ blocks' = {b \in blocks : b.start # comment_start}
                    \cup {[slot |-> slot_of(img_top_row), start |-> comment_start]}
    /\ lpc' = "written"
    /\ UNCHANGED <<img_top_row, comment_start, not_layout>>

\* the loop goes on to the next photograph of the sheet
NextPhoto ==
    /\ lpc = "written"
    /\ img_top_row' \in Rows
    /\ lpc' = "row"
    /\ UNCHANGED <<comment_start, blocks, not_layout>>

LayoutIdle == img_top_row = 0 /\ comment_start = 0 /\ blocks = {} /\ lpc = "off"

(***************************************************************************)
(* main.py: build_note.                                                    *)
(***************************************************************************)
HI == 75
LO == 55

PHRASE_URGENT  == "abnormal condition confirmed - urgent action required"
PHRASE_VISUAL  == "possible abnormality - visual confirmation requested"
PHRASE_POSSIBLE == "possible abnormality"
PHRASE_NORMAL  == "no abnormality confirmed"
PHRASE_FAILED  == "inspection failed"

\* build_note with the high threshold exclusive
build_note_strict_hi(label, conf, reason) ==
    LET phrase ==
            IF label = <<"abnormal">> THEN
                IF conf > HI THEN PHRASE_URGENT
                ELSE IF conf >= LO THEN PHRASE_VISUAL
                ELSE PHRASE_POSSIBLE
            ELSE IF label = <<"normal">> THEN PHRASE_NORMAL
            ELSE PHRASE_FAILED
    IN  IF reason # <<>> THEN <<phrase, "(basis:">> \o reason \o <<")">>
        ELSE <<phrase>>

build_note(label, conf, reason) ==
    LET phrase ==
            IF label = <<"abnormal">> THEN
                IF conf >= HI THEN PHRASE_URGENT
                ELSE IF conf >= LO THEN PHRASE_VISUAL
                ELSE PHRASE_POSSIBLE
            ELSE IF label = <<"normal">> THEN PHRASE_NORMAL
            ELSE PHRASE_FAILED
    IN  IF reason # <<>> THEN <<phrase, "(basis:">> \o reason \o <<")">>
        ELSE <<phrase>>

Labels  == {<<"abnormal">>, <<"normal">>, <<>>, <<"Abnormal">>, <<"unknown">>}
Reasons == {<<>>, <<"crack">>}

NoteInit ==
    /\ n_label \in Labels
    /\ n_conf \in Confs
    /\ n_reason \in Reasons
    /\ n_note = <<>>

\* note = build_note(label, conf, reason)
Compose ==
    /\ n_note = <<>>
    /\ n_note' = build_note(n_label, n_conf, n_reason)
    /\ UNCHANGED <<n_label, n_conf, n_reason, not_note>>

NoteIdle == n_label = <<>> /\ n_conf = 0 /\ n_reason = <<>> /\ n_note = <<"off">>

(***************************************************************************)
(* Python values as the code meets them: tagged records.                   *)
(***************************************************************************)
PyNone    == [t |-> "none", v |-> 0]
PyStr(s)  == [t |-> "str",  v |-> s]
PyNum(n)  == [t |-> "num",  v |-> n]
PyList(l) == [t |-> "list", v |-> l]
PyDict(d) == [t |-> "dict", v |-> d]

\* bool(v)
truthy(x) ==
    CASE x.t = "none" -> FALSE
      [] x.t = "num"  -> x.v # 0
      [] x.t = "dict" -> DOMAIN x.v # {}
      [] OTHER        -> x.v # <<>>

\* the outcome of an expression: a value, or the exception it raised
Ok(val)    == [exc |-> "", val |-> val]
Raise(exc) == [exc |-> exc, val |-> PyNone]

\* d.get(k, default)
py_get(d, k, default) ==
    IF d.t # "dict" THEN Raise("AttributeError")
    ELSE IF k \in DOMAIN d.v THEN Ok(d.v[k])
    ELSE Ok(default)

\* str(v)
py_str(x) ==
    CASE x.t = "str"  -> x.v
      [] x.t = "none" -> <<"None">>
      [] OTHER        -> <<"<repr>">>

\* float(v): the strings of the model are not numerals
py_float(x) ==
    CASE x.t = "num" -> Ok(x.v)
      [] x.t = "str" -> Raise("ValueError")
      [] OTHER       -> Raise("TypeError")

(***************************************************************************)
(* The text a model returns, piece by piece:                               *)
(*   "{" "}"  braces                                                       *)
(*   "m"      the members "label":"abnormal","confidence":0.8,"reason":..  *)
(*   "q"      members whose confidence is the string "high"                *)
(*   "7"      a JSON number                                                *)
(*   "x"      prose                                                        *)
(*   " "      whitespace                                                   *)
(***************************************************************************)
Toks == {"{", "}", "m", "q", "7", "x", " "}

members(tok) ==
    IF tok = "m"
    THEN [label |-> PyStr(<<"abnormal">>), confidence |-> PyNum(80),
          reason |-> PyStr(<<"crack">>)]
    ELSE [label |-> PyStr(<<"normal">>), confidence |-> PyStr(<<"high">>),
          reason |-> PyStr(<<"ok">>)]

\* json.loads(text): whitespace between tokens is skipped; a value is a
\* number or an object with no members or one member list
json_loads(text) ==
    LET toks == SelectSeq(text, LAMBDA c : c # " ")
    IN  IF toks = <<"7">> THEN Ok(PyNum(7))
        ELSE IF toks = <<"{", "}">> THEN Ok(PyDict(<<>>))
        ELSE IF /\ Len(toks) = 3
                /\ toks[1] = "{"
                /\ toks[2] \in {"m", "q"}
                /\ toks[3] = "}"
             THEN Ok(PyDict(members(toks[2])))
        ELSE Raise("JSONDecodeError")

\* text.strip()
RECURSIVE lstrip(_)
lstrip(s) == IF s # <<>> /\ Head(s) = " " THEN lstrip(Tail(s)) ELSE s
RECURSIVE rstrip(_)
rstrip(s) ==
    IF s # <<>> /\ s[Len(s)] = " " THEN rstrip(SubSeq(s, 1, Len(s) - 1)) ELSE s
strip(s) == rstrip(lstrip(s))

\* re.search(r"\{.*\}", text, flags=re.S): the leftmost "{" and, greedily,
\* the last "}" after it; <<>> when there is no match
re_search_braces(text) ==
    LET opens  == {i \in 1..Len(text) : text[i] = "{"}
        closes == {i \in 1..Len(text) : text[i] = "}"}
    IN  IF opens = {} THEN <<>>
        ELSE LET first == CHOOSE i \in opens : \A k \in opens : i <= k
                 after == {i \in closes : i > first}
             IN  IF after = {} THEN <<>>
                 ELSE SubSeq(text, first,
                             CHOOSE i \in after : \A k \in after : k <= i)

\* for p in parts: t = p.get("text"); if t: text_chunks.append(t)
RECURSIVE collect_chunks(_)
collect_chunks(parts) ==
    IF parts = <<>> THEN Ok(<<>>)
    ELSE LET t == py_get(Head(parts), "text", PyNone)
         IN  IF t.exc # "" THEN t
             ELSE LET rest == collect_chunks(Tail(parts))
                  IN  IF rest.exc # "" THEN rest
                      ELSE IF truthy(t.val) THEN Ok(<<t.val>> \o rest.val)
                      ELSE rest

\* "".join(text_chunks)
RECURSIVE join(_)
join(chunks) ==
    IF chunks = <<>> THEN Ok(<<>>)
    ELSE IF Head(chunks).t # "str" THEN Raise("TypeError")
    ELSE LET rest == join(Tail(chunks))
         IN  IF rest.exc # "" THEN rest ELSE Ok(Head(chunks).v \o rest.val)

\* lines 70-78 of parse_response: the text of the first candidate's parts
response_text(payload) ==
    LET cands == py_get(payload, "candidates", PyList(<<>>))
    IN  IF cands.exc # "" THEN cands
        ELSE IF ~truthy(cands.val) THEN Ok(<<>>)
        ELSE IF cands.val.t # "list" THEN Raise("TypeError")
        ELSE LET content == py_get(cands.val.v[1], "content", PyDict(<<>>))
             IN  IF content.exc # "" THEN content
                 ELSE LET parts == py_get(content.val, "parts", PyList(<<>>))
                      IN  IF parts.exc # "" THEN parts
                          ELSE IF parts.val.t # "list" THEN Raise("TypeError")
                          ELSE LET chunks == collect_chunks(parts.val.v)
                               IN  IF chunks.exc # "" THEN chunks
                                   ELSE LET joined == join(chunks.val)
                                        IN  IF joined.exc # "" THEN joined
                                            ELSE Ok(strip(joined.val))

Returned(label, conf, reason) ==
    [st |-> "returned", label |-> label, conf |-> conf, reason |-> reason]
Raised(exc) ==
    [st |-> "raised", label |-> <<>>, conf |-> 0, reason |-> <<exc>>]

\* str(jr.get("label","")), float(jr.get("confidence",0.0)), str(jr.get("reason",""))
read_verdict(jr) ==
    LET label  == py_get(jr, "label", PyStr(<<>>))
        conf   == py_get(jr, "confidence", PyNum(0))
        reason == py_get(jr, "reason", PyStr(<<>>))
    IN  IF label.exc # "" THEN Raised(label.exc)
        ELSE LET f == py_float(conf.val)
             IN  IF f.exc # "" THEN Raised(f.exc)
                 ELSE Returned(py_str(label.val), f.val, py_str(reason.val))

\* tier 1: the whole text as JSON
tier1(text) ==
    LET jr == json_loads(text)
    IN  IF jr.exc # "" THEN Raised(jr.exc) ELSE read_verdict(jr.val)

\* tier 2: the brace substring as JSON; an exception here is not caught
\* locally
tier2(text) ==
    LET jr == json_loads(re_search_braces(text))
    IN  IF jr.exc # "" THEN Raised(jr.exc) ELSE read_verdict(jr.val)

\* the body of parse_response's outer try
parse_body(payload) ==
    LET text == response_text(payload)
    IN  IF text.exc # "" THEN Raised(text.exc)
        ELSE IF tier1(text.val).st = "returned" THEN tier1(text.val)
        ELSE IF re_search_braces(text.val) # <<>> THEN tier2(text.val)
        ELSE Returned(<<>>, 0, <<>>)

\* parse_response without its outer except
parse_response_uncaught(payload) == parse_body(payload)

\* parse_response: except Exception as e: return "", 0.0, f"parse_error:{e}"
parse_response(payload) ==
    LET r == parse_body(payload)
    IN  IF r.st = "raised" THEN Returned(<<>>, 0, <<"parse_error:">> \o r.reason)
        ELSE r

(***************************************************************************)
(* The payloads tried.                                                     *)
(***************************************************************************)
PartKinds ==
    {PyDict([text |-> PyStr(<<c>>)]) : c \in Toks}
        \cup {PyDict(<<>>), PyDict([text |-> PyStr(<<>>)]),
              PyDict([text |-> PyNum(7)]), PyNone}

SeqsUpTo(S, n) == UNION {[1..k -> S] : k \in 0..n}

WithParts(parts) ==
    PyDict([candidates |-> PyList(<<PyDict([content |-> PyDict([parts |-> parts])])>>)])

Payloads ==
    {PyNone,
     PyDict(<<>>),
     PyDict([candidates |-> PyList(<<>>)]),
     PyDict([candidates |-> PyList(<<PyNone>>)]),
     PyDict([candidates |-> PyList(<<PyDict(<<>>)>>)]),
     PyDict([candidates |-> PyList(<<PyDict([content |-> PyNone])>>)]),
     PyDict([candidates |-> PyList(<<PyDict([content |-> PyDict(<<>>)])>>)]),
     WithParts(PyNone)}
        \cup {WithParts(PyList(ps)) : ps \in SeqsUpTo(PartKinds, MaxParts)}

Pending == [st |-> "pending", label |-> <<>>, conf |-> 0, reason |-> <<>>]

ParseInit ==
    /\ j \in Payloads
    /\ verdict = Pending

\* label, conf, reason = parse_response(raw)
Parse ==
    /\ verdict.st = "pending"
    /\ verdict' = parse_response(j)
    /\ UNCHANGED <<j, not_parse>>

ParseIdle == j = PyNone /\ verdict = [Pending EXCEPT !.st = "off"]

(***************************************************************************)
(* main.py: call_gemini and the /infer handler.                            *)
(***************************************************************************)
\* What the upstream model does with the request.
Upstreams ==
    {[kind |-> k, raw |-> PyNone] :
        k \in {"http_status", "connect_error", "timeout", "bad_body"}}
        \cup {[kind |-> "json", raw |-> p] : p \in Payloads}

\* call_gemini: client.post raises when the upstream is unreachable or times
\* out, raise_for_status raises on a non-2xx status, r.json() on a body that
\* is not JSON
call_gemini(upstream) ==
    CASE upstream.kind = "connect_error" -> Raise("ConnectError")
      [] upstream.kind = "timeout"       -> Raise("ReadTimeout")
      [] upstream.kind = "http_status"   -> Raise("HTTPStatusError")
      [] upstream.kind = "bad_body"      -> Raise("JSONDecodeError")
      [] OTHER                           -> Ok(upstream.raw)

Response(status, body, calls) ==
    [status |-> status, body |-> body, upstream_calls |-> calls]

\* the /infer handler
infer(request) ==
    IF request.img = "empty"
    THEN Response(400, [error |-> <<"empty file">>], 0)
    ELSE LET raw == call_gemini(request.upstream)
         IN  IF raw.exc = "HTTPStatusError"
             THEN Response(502, [error |-> <<"gemini_api:", "<response text>">>], 1)
             ELSE IF raw.exc # ""
             THEN Response(500, [error |-> <<raw.exc>>], 1)
             ELSE LET v == parse_response(raw.val)
                  IN  IF v.st = "raised"
                      THEN Response(500, [error |-> v.reason], 1)
                      ELSE Response(200,
                                    [label |-> v.label,
                                     confidence |-> v.conf,
                                     reason |-> v.reason,
                                     note |-> build_note(v.label, v.conf, v.reason),
                                     raw |-> IF request.debug = 1 THEN raw.val
                                             ELSE PyNone],
                                    1)

Requests ==
    [img : {"empty", "bytes"}, debug : {0, 1}, upstream : Upstreams]

NoResponse == Response(0, [error |-> <<>>], 0)

InferInit ==
    /\ req \in Requests
    /\ resp = NoResponse

\* POST /infer
Infer ==
    /\ resp = NoResponse
    /\ resp' = infer(req)
    /\ UNCHANGED <<req, not_infer>>

InferIdle ==
    /\ req = [img |-> "off", debug |-> 0, upstream |-> [kind |-> "off", raw |-> PyNone]]
    /\ resp = NoResponse

(***************************************************************************)
(* excel_image_infer.py: one pass of _inspect_core over the sheet's        *)
(* shapes, with export_shape_to_png stepped through statement by           *)
(* statement.  Every host (COM / AppleScript) call may raise.              *)
(***************************************************************************)
ShapeRows == {DATA_START_ROW, DATA_START_ROW + BLOCK_PITCH}

\* shp.type is "picture", something else, or cannot be read; named says
\* whether shp.name holds "picture" or the word for image
ShapeKinds ==
    [type : {"picture", "other", "unavailable"}, named : BOOLEAN, row : ShapeRows]

\* lines 129-135: the type tag, else the name
is_picture(shp) ==
    IF shp.type # "unavailable" THEN shp.type = "picture" ELSE shp.named

\* a temporary file is absent ("none"), zero bytes ("empty") or holds data
FileStates == {"none", "empty", "data"}
exists(f)  == f # "none"
getsize(f) == IF f = "data" THEN 1 ELSE 0

\* line 56 testing only that the file exists
native_ok_exists_only(f) == exists(f)

\* line 56: os.path.exists(out_path) and os.path.getsize(out_path) > 0
native_ok(f) == exists(f) /\ getsize(f) > 0

\* line 71: not os.path.exists(out_path) or os.path.getsize(out_path) == 0
chart_file_bad(f) == ~exists(f) \/ getsize(f) = 0

ExNone ==
    [native_raised |-> FALSE, native_file |-> "none", tier2 |-> FALSE,
     chart_raised |-> FALSE, file_at_end |-> "none", result |-> "none"]

NOTE_ERROR == "inspection error: "

PassInit ==
    /\ shapes \in SeqsUpTo(ShapeKinds, MaxShapes)
    /\ idx = 1
    /\ pc = "start"
    /\ tmp_files = [i \in 1..Len(shapes) |-> "none"]
    /\ containers = 0
    /\ written = <<>>
    /\ msgbox = "none"
    /\ ex = ExNone
    /\ note = <<>>

\* lines 120-125: no shapes, a message box and return
Start ==
    /\ pc = "start"
    /\ IF shapes = <<>>
       THEN pc' = "done" /\ msgbox' = "not_found"
       ELSE pc' = "classify" /\ UNCHANGED msgbox
    /\ UNCHANGED <<shapes, idx, tmp_files, containers, written, ex, note, not_pass>>

\* the for statement takes the next shape, or the loop ends and line 165
\* shows the completion message
Continue ==
    IF idx < Len(shapes)
    THEN idx' = idx + 1 /\ pc' = "classify" /\ UNCHANGED msgbox
    ELSE pc' = "done" /\ msgbox' = "completed" /\ UNCHANGED idx

\* lines 129-143: shapes that are not pictures are skipped
Classify ==
    /\ pc = "classify"
    /\ IF is_picture(shapes[idx])
       THEN pc' = "mktemp" /\ UNCHANGED <<idx, msgbox>>
       ELSE Continue
    /\ UNCHANGED <<shapes, tmp_files, containers, written, ex, note, not_pass>>

\* lines 146-147: NamedTemporaryFile(suffix=".png", delete=False)
MkTemp ==
    /\ pc = "mktemp"
    /\ tmp_files' = [tmp_files EXCEPT ![idx] = "empty"]
    /\ pc' = "native"
    /\ ex' = ExNone
    /\ UNCHANGED <<shapes, idx, containers, written, msgbox, note, not_pass>>

\* lines 54-59: the native export may raise and may leave any file
ExportNative ==
    /\ pc = "native"
    /\ \E raises \in BOOLEAN, f \in FileStates :
        /\ tmp_files' = [tmp_files EXCEPT ![idx] = f]
        /\ IF ~raises /\ native_ok(f)
           THEN /\ ex' = [ex EXCEPT !.native_file = f, !.file_at_end = f,
                                    !.result = "returned"]
                /\ pc' = "infer"
           ELSE /\ ex' = [ex EXCEPT !.native_raised = raises, !.native_file = f,
                                    !.tier2 = TRUE, !.result = "running"]
                /\ pc' = "chart_add"
    /\ UNCHANGED <<shapes, idx, containers, written, msgbox, note, not_pass>>

\* lines 73-74 and 148: the chart tier's exception becomes RuntimeError,
\* which nothing in _inspect_core catches
ExportRaises ==
    /\ ex' = [ex EXCEPT !.chart_raised = TRUE, !.file_at_end = tmp_files[idx],
                        !.result = "raised"]
    /\ pc' = "aborted"

\* lines 62-65: co = sht.api.ChartObjects().Add(left, top, width, height)
ChartAdd ==
    /\ pc = "chart_add"
    /\ \E ok \in BOOLEAN :
        IF ok
        THEN containers' = containers + 1 /\ pc' = "chart_activate" /\ UNCHANGED ex
        ELSE ExportRaises /\ UNCHANGED containers
    /\ UNCHANGED <<shapes, idx, tmp_files, written, msgbox, note, not_pass>>

\* line 66: co.Activate()
ChartActivate ==
    /\ pc = "chart_activate"
    /\ \E ok \in BOOLEAN :
        IF ok THEN pc' = "chart_copy" /\ UNCHANGED ex ELSE ExportRaises
    /\ UNCHANGED <<shapes, idx, tmp_files, containers, written, msgbox, note, not_pass>>

\* line 67: shp.api.Copy()
ChartCopy ==
    /\ pc = "chart_copy"
    /\ \E ok \in BOOLEAN :
        IF ok THEN pc' = "chart_paste" /\ UNCHANGED ex ELSE ExportRaises
    /\ UNCHANGED <<shapes, idx, tmp_files, containers, written, msgbox, note, not_pass>>

\* line 68: co.Chart.Paste()
ChartPaste ==
    /\ pc = "chart_paste"
    /\ \E ok \in BOOLEAN :
        IF ok THEN pc' = "chart_export" /\ UNCHANGED ex ELSE ExportRaises
    /\ UNCHANGED <<shapes, idx, tmp_files, containers, written, msgbox, note, not_pass>>

\* line 69: co.Chart.Export(Filename=out_path, FilterName="PNG")
ChartExport ==
    /\ pc = "chart_export"
    /\ \E ok \in BOOLEAN, f \in FileStates :
        /\ tmp_files' = [tmp_files EXCEPT ![idx] = f]
        /\ IF ok
           THEN pc' = "chart_delete" /\ UNCHANGED ex
           ELSE /\ ex' = [ex EXCEPT !.chart_raised = TRUE, !.file_at_end = f,
                                    !.result = "raised"]
                /\ pc' = "aborted"
    /\ UNCHANGED <<shapes, idx, containers, written, msgbox, note, not_pass>>

\* line 70: co.Delete()
ChartDelete ==
    /\ pc = "chart_delete"
    /\ \E ok \in BOOLEAN :
        IF ok
        THEN containers' = containers - 1 /\ pc' = "chart_check" /\ UNCHANGED ex
        ELSE ExportRaises /\ UNCHANGED containers
    /\ UNCHANGED <<shapes, idx, tmp_files, written, msgbox, note, not_pass>>

\* lines 71-72: an empty or missing file raises; otherwise export returns
ChartCheck ==
    /\ pc = "chart_check"
    /\ IF chart_file_bad(tmp_files[idx])
       THEN /\ ex' = [ex EXCEPT !.file_at_end = tmp_files[idx], !.result = "raised"]
            /\ pc' = "aborted"
       ELSE /\ ex' = [ex EXCEPT !.file_at_end = tmp_files[idx], !.result = "returned"]
            /\ pc' = "infer"
    /\ UNCHANGED <<shapes, idx, tmp_files, containers, written, msgbox, note, not_pass>>

\* lines 150-155: call_infer_api raises (the file cannot be opened, the
\* service is unreachable or answers an error status) or returns a result
\* with or without a note
CallInfer ==
    /\ pc = "infer"
    /\ \E outcome \in {"raises", "note", "no_note"} :
        /\ exists(tmp_files[idx]) \/ outcome = "raises"
        /\ note' = CASE outcome = "raises" -> <<NOTE_ERROR, "<e>">>
                     [] outcome = "note"   -> <<"<note>">>
                     [] OTHER              -> <<PHRASE_FAILED>>
    /\ pc' = "remove"
    /\ UNCHANGED <<shapes, idx, tmp_files, containers, written, msgbox, ex, not_pass>>

\* lines 157-160: os.remove(tmp_path), a failure is ignored
RemoveTmp ==
    /\ pc = "remove"
    /\ \E ok \in BOOLEAN :
        tmp_files' = IF ok THEN [tmp_files EXCEPT ![idx] = "none"] ELSE tmp_files
    /\ pc' = "write"
    /\ UNCHANGED <<shapes, idx, containers, written, msgbox, ex, note, not_pass>>

\* line 163: write_comment_block(sht, comment_start, note), then the loop
\* goes on
WriteNote ==
    /\ pc = "write"
    /\ written' = Append(written,
                         [shape |-> idx,
                          start |-> snap_comment_start_row(shapes[idx].row),
                          text  |-> note])
    /\ Continue
    /\ UNCHANGED <<shapes, tmp_files, containers, ex, note, not_pass>>

PassIdle ==
    /\ shapes = <<>> /\ idx = 0 /\ pc = "off" /\ tmp_files = <<>>
    /\ containers = 0 /\ written = <<>> /\ msgbox = "none"
    /\ ex = ExNone /\ note = <<>>

(***************************************************************************)
(* Specifications.                                                         *)
(***************************************************************************)
LayoutNext == Snap \/ WriteComment \/ NextPhoto
InitLayout == LayoutInit /\ NoteIdle /\ ParseIdle /\ InferIdle /\ PassIdle
SpecLayout == InitLayout /\ [][LayoutNext]_vars

NoteNext == Compose
InitNote == NoteInit /\ LayoutIdle /\ ParseIdle /\ InferIdle /\ PassIdle
SpecNote == InitNote /\ [][NoteNext]_vars

ParseNext == Parse
InitParse == ParseInit /\ LayoutIdle /\ NoteIdle /\ InferIdle /\ PassIdle
SpecParse == InitParse /\ [][ParseNext]_vars

InferNext == Infer
InitInfer == InferInit /\ LayoutIdle /\ NoteIdle /\ ParseIdle /\ PassIdle
SpecInfer == InitInfer /\ [][InferNext]_vars

PassNext ==
    \/ Start \/ Classify \/ MkTemp \/ ExportNative
    \/ ChartAdd \/ ChartActivate \/ ChartCopy \/ ChartPaste
    \/ ChartExport \/ ChartDelete \/ ChartCheck
    \/ CallInfer \/ RemoveTmp \/ WriteNote
InitPass == PassInit /\ LayoutIdle /\ NoteIdle /\ ParseIdle /\ InferIdle
SpecPass == InitPass /\ [][PassNext]_vars

(***************************************************************************)
(* Properties of one pass (SpecPass).                                      *)
(***************************************************************************)
Photos == {i \in 1..Len(shapes) : is_picture(shapes[i])}
Noted(i) == \E k \in 1..Len(written) : written[k].shape = i

\* C1: a failure of export_shape_to_png or call_infer_api for one photograph
\* never aborts the pass, and when the pass ends every photograph of the
\* list has its own note written by write_comment_block.
C1_FailureIsolated ==
    /\ pc # "aborted"
    /\ pc = "done" => \A i \in Photos : Noted(i)

\* C2: no temporary export file outlives the processing of its photograph:
\* none is present when the loop takes the next shape, nor when the pass has
\* ended, however it ended.
C2_TmpFilesDeleted ==
    pc \in {"classify", "done", "aborted"} =>
        \A i \in 1..Len(shapes) : tmp_files[i] = "none"

\* C3: once export_shape_to_png has returned or raised, no chart container
\* it created is left on the sheet.
C3_NoContainerLeft ==
    ex.result \in {"returned", "raised"} => containers = 0

\* C4: export_shape_to_png returns only with an existing, non-empty file;
\* when the native export raised or left a missing or zero-byte file the
\* chart tier was attempted before returning; and when the chart tier raised
\* or left a missing or zero-byte file, export raised.
C4_ExportSuccessMeansFile ==
    /\ ex.result = "returned" => ex.file_at_end = "data"
    /\ (ex.result = "returned" /\ (ex.native_raised \/ ex.native_file # "data"))
          => ex.tier2
    /\ (/\ ex.result \in {"returned", "raised"}
        /\ ex.tier2
        /\ (ex.chart_raised \/ ex.file_at_end # "data"))
          => ex.result = "raised"

\* the native export completed with a zero-byte file and the chart tier
\* then produced the image
C4_Witness ==
    /\ pc = "infer"
    /\ ex.result = "returned"
    /\ ~ex.native_raised
    /\ ex.native_file = "empty"
    /\ ex.tier2
    /\ tmp_files[idx] = "data"

(***************************************************************************)
(* Properties of parse_response (SpecParse).                               *)
(***************************************************************************)
\* C5: parse_response never raises: whatever the payload, it returns a
\* (label, confidence, reason) triple.
C5_NeverRaises ==
    /\ verdict.st # "raised"
    /\ verdict.st = "returned" =>
          /\ verdict.conf \in Int
          /\ verdict.label \in Seq(STRING)
          /\ verdict.reason \in Seq(STRING)

\* a malformed candidate is turned into a verdict
C5_Witness ==
    /\ j = PyDict([candidates |-> PyList(<<PyNone>>)])
    /\ verdict = Returned(<<>>, 0, <<"parse_error:", "AttributeError">>)

IsPrefix(a, b) == Len(a) <= Len(b) /\ a = SubSeq(b, 1, Len(a))

\* C6: whenever the whole text fails the structured parse and either no
\* brace substring exists or the greedy brace substring fails the structured
\* parse, the verdict is the tier 3 one: empty label, confidence 0.0 and a
\* reason that is empty or a prefix of the text.
C6_Tier3WhenBothTiersFail ==
    LET text == response_text(j)
    IN  (/\ verdict.st = "returned"
         /\ text.exc = ""
         /\ tier1(text.val).st = "raised"
         /\ \/ re_search_braces(text.val) = <<>>
            \/ tier2(text.val).st = "raised")
        => /\ verdict.label = <<>>
           /\ verdict.conf = 0
           /\ IsPrefix(verdict.reason, text.val)

(***************************************************************************)
(* Properties of the /infer handler (SpecInfer).                           *)
(***************************************************************************)
\* C7: an empty upload gives 400 without a call to the upstream model; a
\* non-2xx upstream status, an unreachable upstream and an upstream timeout
\* all give 502; a successful run gives 200 with label, confidence, reason
\* and note = build_note(label, confidence, reason); 500 is left to other
\* failures.
C7_StatusCodes ==
    resp # NoResponse =>
        /\ req.img = "empty" => resp.status = 400 /\ resp.upstream_calls = 0
        /\ (/\ req.img # "empty"
            /\ req.upstream.kind \in {"http_status", "connect_error", "timeout"})
              => resp.status = 502
        /\ (req.img # "empty" /\ req.upstream.kind = "json") => resp.status = 200
        /\ resp.status = 200 =>
              resp.body.note =
                  build_note(resp.body.label, resp.body.confidence, resp.body.reason)
        /\ resp.status = 500 =>
              req.upstream.kind \notin {"http_status", "connect_error", "timeout"}

(***************************************************************************)
(* Properties of build_note (SpecNote).                                    *)
(***************************************************************************)
\* C8: build_note follows the decision table with thresholds 0.75 and 0.55,
\* inclusive at their lower bound, for every label, confidence and reason,
\* and appends the reason in parentheses exactly when it is not empty.
C8_DecisionTable ==
    n_note # <<>> =>
        /\ (n_label = <<"abnormal">> /\ n_conf >= 75)
              => Head(n_note) = "abnormal condition confirmed - urgent action required"
        /\ (n_label = <<"abnormal">> /\ n_conf >= 55 /\ n_conf < 75)
              => Head(n_note) = "possible abnormality - visual confirmation requested"
        /\ (n_label = <<"abnormal">> /\ n_conf < 55)
              => Head(n_note) = "possible abnormality"
        /\ n_label = <<"normal">> => Head(n_note) = "no abnormality confirmed"
        /\ n_label \notin {<<"abnormal">>, <<"normal">>}
              => Head(n_note) = "inspection failed"
        /\ n_reason = <<>> => Len(n_note) = 1
        /\ n_reason # <<>> => Tail(n_note) = <<"(basis:">> \o n_reason \o <<")">>

\* confidence exactly at the high threshold, with a reason
C8_Witness ==
    /\ n_label = <<"abnormal">>
    /\ n_conf = 75
    /\ n_reason = <<"crack">>
    /\ n_note = <<"abnormal condition confirmed - urgent action required",
                  "(basis:", "crack", ")">>

(***************************************************************************)
(* Properties of the layout (SpecLayout).                                  *)
(***************************************************************************)
\* C9: with start row 5, pitch 21 and image span 14, the comment start row
\* of anchor row r is 19 when r < 5 and 5 + 14 + floor((r - 5) / 21) * 21
\* otherwise; rows 5, 18 and 3 give 19 and row 26 gives 40; the slot index
\* is never negative.
C9_SnapRow ==
    lpc \in {"snapped", "written"} =>
        /\ comment_start =
              IF img_top_row < 5 THEN 19
              ELSE 5 + 14 + ((img_top_row - 5) \div 21) * 21
        /\ img_top_row \in {3, 5, 18} => comment_start = 19
        /\ img_top_row = 26 => comment_start = 40
        /\ \E k \in 0..MaxRow : comment_start = 19 + 21 * k

\* a row below the first photograph snaps to slot 0
C9_Witness == lpc = "snapped" /\ img_top_row = 3 /\ comment_start = 19

\* C10: the comment block of slot k lies below the photograph rows of slot k
\* and above those of slot k + 1; it covers no photograph row, and the
\* blocks of different slots share no row.
C10_BlocksDisjoint ==
    /\ \A b \in blocks :
          /\ \A r \in comment_range(b.start) :
                /\ \A p \in photo_rows(b.slot) : p < r
                /\ \A p \in photo_rows(b.slot + 1) : r < p
          /\ \A k \in Slots : comment_range(b.start) \cap photo_rows(k) = {}
    /\ \A b1, b2 \in blocks :
          b1.slot # b2.slot =>
              comment_range(b1.start) \cap comment_range(b2.start) = {}

\* the blocks of two consecutive slots are on the sheet
C10_Witness ==
    \E b1, b2 \in blocks : b1.slot = 0 /\ b2.slot = 1 /\ b1.start = 19 /\ b2.start = 40

====
